---- MODULE Spec2Model ----
(***************************************************************************)
(* Three desktop dashboards of the repository, each a separate script:     *)
(*   "packet"  - src/claude-packetanalyzer.py (scapy capture + Tk UI)      *)
(*   "motion"  - src/esp32-mpu6050.py (serial telemetry, 8 fields a line)  *)
(*   "ranging" - src/obstacle_visualizer.py (serial telemetry, 4 fields)   *)
(* One behaviour of the model is one run of one script; Init chooses it.   *)
(*                                                                         *)
(* Spec     : every UI handler, every packet callback and every iteration  *)
(*            of an acquisition loop is one atomic action.                 *)
(* RaceSpec : the store block of collect_data is split into its statements *)
(*            so that UI handlers interleave with it.                      *)
(* PacketRaceSpec : the same for the three store updates of                *)
(*            packet_callback on the packet dashboard.                     *)
(* FairSpec : Spec with weak fairness on the steps the threads and the Tk  *)
(*            main loop take on their own.                                 *)
(* MotionFairSpec : the same for the motion dashboard alone.               *)
(***************************************************************************)
EXTENDS Integers, Sequences, FiniteSets, TLC

VARIABLES
    app,              \* which script's __main__ block is running
    phase,            \* "setup" | "mainloop" | "closed"
    after_queue,      \* callbacks posted with root.after(0, ...), FIFO
    rx,               \* lines in the serial input buffer, not yet read
    n_in,             \* inputs the transport has produced so far
    push_log,         \* history: samples pushed since the last clear/reset
    \* ---- packet dashboard (PacketAnalyzer)
    packets, packet_sizes, protocol_counts, capturing,
    capture_thread,   \* pc of each capture thread ever spawned
    packet_tree,      \* rows of the packet list widget
    analysis_text,    \* last line of the analysis panel ("" when empty)
    viz_timer,        \* update_visualization is scheduled with root.after
    rendered,         \* what the last render pass drew
    last_cmd,         \* history: last Start/Stop click and the state it found
    analysis,         \* analyze_selected: where the UI thread is in it
    callback,         \* packet_callback on each capture thread: pc and packet
    \* ---- motion dashboard (MPU6050Dashboard)
    running, accel_data, gyro_data, orientation_data,
    data_thread,      \* collect_data: its pc and its locals
    serial_port,      \* "none" (attribute never set) | "open" | "closed"
                      \* | "lost" (device unplugged: every access raises)
    last_iter,        \* how the last iteration of collect_data ended
    plot_lines,       \* length of the data each plot line was last given
    cal,              \* calibration dialog: "closed" | "polling" | "success" | "failed"
    recording,        \* File > Start Recording has opened a file, not yet closed
    csv_rows,         \* data rows written to that file after its header row
    \* ---- ranging dashboard (EnhancedSensorGUI)
    sensor_readings, sensor_histories,
    serial,           \* "none" (setup_serial failed) | "open" | "lost"
    last_tick         \* how the last update_gui ended: "rendered" | "failed"

pktVars == <<packets, packet_sizes, protocol_counts, capturing, capture_thread,
             packet_tree, analysis_text, viz_timer, last_cmd, analysis,
             callback>>
comVars == <<app, phase, after_queue, rx, n_in, push_log, rendered>>
recVars == <<recording, csv_rows>>
motVars == <<running, accel_data, gyro_data, orientation_data, data_thread,
             serial_port, plot_lines, cal, last_iter, recVars>>
rngVars == <<sensor_readings, sensor_histories, serial, last_tick>>
vars == <<comVars, pktVars, motVars, rngVars>>

(***************************************************************************)
(* Bounds of the model.  The three history capacities are 100 in the       *)
(* source (claude-packetanalyzer.py:22, obstacle_visualizer.py:22,         *)
(* esp32-mpu6050.py:52); the model runs them scaled down so that a history *)
(* fills up and overflows within a few inputs.                             *)
(***************************************************************************)
MaxThreads == 2
MaxPackets == 3
MaxLines == 3
MaxRx == 1
maxlen == 2
history_length == 2
data_points == 2

Apps == {"packet", "motion", "ranging"}

(***************************************************************************)
(* Helpers on sequences.                                                   *)
(***************************************************************************)
LastN(s, n) ==
    IF Len(s) <= n THEN s ELSE SubSeq(s, Len(s) - n + 1, Len(s))

SeqSum(f, S) ==
    LET RECURSIVE Sum(_)
        Sum(T) == IF T = {} THEN 0
                  ELSE LET x == CHOOSE y \in T : TRUE IN f[x] + Sum(T \ {x})
    IN Sum(S)

(***************************************************************************)
(* collections.deque(maxlen=n).append: drops the leftmost element when the *)
(* deque is full.                                                          *)
(***************************************************************************)
DequeAppend_NoEvict(d, x, n) == Append(d, x)

DequeAppend(d, x, n) ==
    IF Len(d) >= n THEN Append(SubSeq(d, Len(d) - n + 2, Len(d)), x)
    ELSE Append(d, x)

(***************************************************************************)
(* Packet dashboard.                                                       *)
(***************************************************************************)
\* A captured frame: which of the scapy layers IP, TCP, UDP it holds and its
\* length in bytes.  The frames the transport produces carry no payload, so
\* their length is the sum of their header sizes.
FrameLen(ip, tcp, udp) ==
    14 + (IF ip THEN 20 ELSE 0) + (IF tcp THEN 20 ELSE 0) + (IF udp THEN 8 ELSE 0)

Packets ==
    { [ip |-> i, tcp |-> t, udp |-> u, len |-> FrameLen(i, t, u)] :
        i \in BOOLEAN, t \in BOOLEAN, u \in BOOLEAN }

Protos == {"TCP", "UDP", "Other"}

ZeroCounts == [p \in Protos |-> 0]

Threads == 1..MaxThreads

\* line 171: "TCP" if TCP in packet else "UDP" if UDP in packet else "Other"
Proto_UdpFirst(pkt) ==
    IF pkt.udp THEN "UDP" ELSE IF pkt.tcp THEN "TCP" ELSE "Other"

Proto(pkt) ==
    IF pkt.tcp THEN "TCP" ELSE IF pkt.udp THEN "UDP" ELSE "Other"

\* get_packet_info: ports and flags for TCP, ports for UDP, else nothing
get_packet_info(pkt) ==
    IF pkt.tcp THEN "Port|Flags" ELSE IF pkt.udp THEN "Port" ELSE ""

\* packet_info of line 176, without the wall-clock timestamp and addresses
PacketRow(pkt) ==
    [proto |-> Proto(pkt), length |-> pkt.len, info |-> get_packet_info(pkt)]

AliveThreads == { t \in Threads : capture_thread[t] \in {"start", "sniff"} }

Post(f, arg) == Append(after_queue, [f |-> f, arg |-> arg])

\* analyze_selected calls the analysis service from the Tk handler itself, so
\* no other handler, posted callback or timer runs until the call returns
UiFree == analysis.pc = "idle"

NoPacket == [ip |-> FALSE, tcp |-> FALSE, udp |-> FALSE, len |-> 0]

BaseKeys == {"time", "source_ip", "dest_ip", "protocol", "length"}

PortKeys == {"source_port", "dest_port"}

TcpFlagNames == {"SYN", "ACK", "FIN", "RST"}

\* packet_to_dict, lines 313-340: the keys of the record, its protocol tag
\* and the names under "tcp_flags"
packet_to_dict_FlagsForAll(pkt) ==
    [keys      |-> BaseKeys \cup PortKeys \cup {"tcp_flags"},
     protocol  |-> IF pkt.tcp THEN "TCP" ELSE IF pkt.udp THEN "UDP" ELSE "Other",
     length    |-> pkt.len,
     tcp_flags |-> TcpFlagNames]

packet_to_dict(pkt) ==
    [keys      |-> BaseKeys \cup (IF pkt.tcp THEN PortKeys \cup {"tcp_flags"}
                                  ELSE IF pkt.udp THEN PortKeys ELSE {}),
     protocol  |-> IF pkt.tcp THEN "TCP" ELSE IF pkt.udp THEN "UDP" ELSE "Other",
     length    |-> pkt.len,
     tcp_flags |-> IF pkt.tcp THEN TcpFlagNames ELSE {}]

\* no packet_callback is running on the thread
CallbackIdle == [pc |-> "idle", packet |-> NoPacket]

AnalysisIdle ==
    [pc |-> "idle", packet |-> NoPacket, packet_dict |-> packet_to_dict(NoPacket)]

\* The body of update_visualization: draw packet_sizes and protocol_counts,
\* then re-arm the timer only while capturing.
Render ==
    [sizes  |-> packet_sizes,
     counts |-> IF SeqSum(protocol_counts, Protos) > 0
                THEN protocol_counts ELSE ZeroCounts]

update_visualization ==
    /\ app = "packet"
    /\ UNCHANGED <<motVars, rngVars, analysis, callback>>
    /\ phase = "setup" \/ (phase = "mainloop" /\ viz_timer /\ UiFree)
    /\ rendered' = Render
    /\ viz_timer' = capturing
    /\ phase' = "mainloop"
    /\ UNCHANGED <<app, after_queue, rx, n_in, push_log>>
    /\ UNCHANGED <<packets, packet_sizes, protocol_counts, capturing,
                   capture_thread, packet_tree, analysis_text, last_cmd>>

start_capture_Unguarded ==
    /\ app = "packet" /\ phase = "mainloop" /\ UiFree
    /\ UNCHANGED <<motVars, rngVars, analysis, callback>>
    /\ \E t \in Threads :
         /\ capture_thread[t] = "none"
         /\ \A u \in 1..(t - 1) : capture_thread[u] # "none"
         /\ capture_thread' = [capture_thread EXCEPT ![t] = "start"]
    /\ capturing' = TRUE
    /\ analysis_text' = "Packet capture started..."
    /\ last_cmd' = <<"start", capturing>>
    /\ UNCHANGED comVars
    /\ UNCHANGED <<packets, packet_sizes, protocol_counts, packet_tree,
                   viz_timer>>

start_capture ==
    /\ app = "packet" /\ phase = "mainloop" /\ UiFree
    /\ UNCHANGED <<motVars, rngVars, analysis, callback>>
    /\ IF ~capturing
       THEN /\ \E t \in Threads :
                 /\ capture_thread[t] = "none"
                 /\ \A u \in 1..(t - 1) : capture_thread[u] # "none"
                 /\ capture_thread' = [capture_thread EXCEPT ![t] = "start"]
            /\ capturing' = TRUE
            /\ analysis_text' = "Packet capture started..."
       ELSE UNCHANGED <<capture_thread, capturing, analysis_text>>
    /\ last_cmd' = <<"start", capturing>>
    /\ UNCHANGED comVars
    /\ UNCHANGED <<packets, packet_sizes, protocol_counts, packet_tree,
                   viz_timer>>

stop_capture ==
    /\ app = "packet" /\ phase = "mainloop" /\ UiFree
    /\ UNCHANGED <<motVars, rngVars, analysis, callback>>
    /\ capturing' = FALSE
    /\ analysis_text' = "Packet capture stopped."
    /\ last_cmd' = <<"stop", capturing>>
    /\ UNCHANGED comVars
    /\ UNCHANGED <<packets, packet_sizes, protocol_counts, capture_thread,
                   packet_tree, viz_timer>>

clear_display ==
    /\ app = "packet" /\ phase = "mainloop" /\ UiFree
    /\ UNCHANGED <<motVars, rngVars, analysis, callback>>
    /\ packet_tree' = <<>>
    /\ analysis_text' = ""
    /\ packets' = <<>>
    /\ packet_sizes' = <<>>
    /\ protocol_counts' = ZeroCounts
    /\ push_log' = <<>>
    /\ UNCHANGED <<app, phase, after_queue, rx, n_in, rendered>>
    /\ UNCHANGED <<capturing, capture_thread, viz_timer, last_cmd>>

\* capture_packets up to the call of sniff (lines 211-223)
capture_packets(t) ==
    /\ app = "packet"
    /\ UNCHANGED <<motVars, rngVars, analysis, callback>>
    /\ capture_thread[t] = "start"
    /\ capture_thread' = [capture_thread EXCEPT ![t] = "sniff"]
    /\ UNCHANGED comVars
    /\ UNCHANGED <<packets, packet_sizes, protocol_counts, capturing,
                   packet_tree, analysis_text, viz_timer, last_cmd>>

capture_error_Silent(t) ==
    /\ app = "packet"
    /\ UNCHANGED <<motVars, rngVars, analysis, callback>>
    /\ capture_thread[t] \in {"start", "sniff"}
    /\ capture_thread' = [capture_thread EXCEPT ![t] = "dead"]
    /\ UNCHANGED comVars
    /\ UNCHANGED <<packets, packet_sizes, protocol_counts, capturing,
                   packet_tree, analysis_text, viz_timer, last_cmd>>

\* sniff (or the lookup of the interface before it) raises: lines 224-227
capture_error(t) ==
    /\ app = "packet"
    /\ UNCHANGED <<motVars, rngVars, analysis, callback>>
    /\ capture_thread[t] \in {"start", "sniff"}
    /\ capture_thread' = [capture_thread EXCEPT ![t] = "dead"]
    /\ after_queue' = Post("show_error", "capture")
    /\ capturing' = FALSE
    /\ UNCHANGED <<app, phase, rx, n_in, push_log, rendered>>
    /\ UNCHANGED <<packets, packet_sizes, protocol_counts, packet_tree,
                   analysis_text, viz_timer, last_cmd>>

\* sniff hands one frame to prn=self.packet_callback on capture thread t
packet_callback(t, pkt) ==
    /\ app = "packet"
    /\ UNCHANGED <<motVars, rngVars, analysis, callback>>
    /\ capture_thread[t] = "sniff"
    /\ n_in < MaxPackets
    /\ n_in' = n_in + 1
    /\ IF pkt.ip
       THEN /\ packets' = Append(packets, pkt)
            /\ packet_sizes' = DequeAppend(packet_sizes, pkt.len, maxlen)
            /\ protocol_counts' =
                 [protocol_counts EXCEPT ![Proto(pkt)] = @ + 1]
            /\ after_queue' = Post("insert", PacketRow(pkt))
            /\ push_log' = Append(push_log, <<pkt.len>>)
       ELSE UNCHANGED <<packets, packet_sizes, protocol_counts, after_queue,
                        push_log>>
    /\ UNCHANGED <<app, phase, rx, rendered>>
    /\ UNCHANGED <<capturing, capture_thread, packet_tree, analysis_text,
                   viz_timer, last_cmd>>

\* show_error, lines 342-345
show_error(msg) ==
    analysis_text' = "Error: " \o msg

\* the Tk main loop runs the oldest callback posted with root.after(0, ...)
RunAfterPacket ==
    /\ app = "packet" /\ phase = "mainloop" /\ UiFree
    /\ UNCHANGED <<motVars, rngVars, analysis, callback>>
    /\ after_queue # <<>>
    /\ after_queue' = Tail(after_queue)
    /\ IF Head(after_queue).f = "insert"
       THEN /\ packet_tree' = Append(packet_tree, Head(after_queue).arg)
            /\ UNCHANGED analysis_text
       ELSE /\ show_error(Head(after_queue).arg)
            /\ UNCHANGED packet_tree
    /\ UNCHANGED <<app, phase, rx, n_in, push_log, rendered>>
    /\ UNCHANGED <<packets, packet_sizes, protocol_counts, capturing,
                   capture_thread, viz_timer, last_cmd>>

\* the Analyze Selected button with row sel selected (0: no selection), up to
\* the request to the analysis service (lines 275-304)
analyze_selected_NoSelectionTest(sel) ==
    /\ app = "packet" /\ phase = "mainloop" /\ UiFree
    /\ UNCHANGED <<motVars, rngVars, callback>>
    /\ sel \in 0..Len(packet_tree)
    /\ IF sel = 0 /\ packets = <<>>
       THEN /\ show_error("Please select a packet to analyze")
            /\ UNCHANGED analysis
       ELSE IF sel > Len(packets)
       THEN UNCHANGED <<analysis_text, analysis>>
       ELSE LET index == IF sel = 0 THEN 1 ELSE sel
            IN /\ analysis' = [pc |-> "calling", packet |-> packets[index],
                               packet_dict |-> packet_to_dict(packets[index])]
               /\ UNCHANGED analysis_text
    /\ UNCHANGED comVars
    /\ UNCHANGED <<packets, packet_sizes, protocol_counts, capturing,
                   capture_thread, packet_tree, viz_timer, last_cmd>>

analyze_selected(sel) ==
    /\ app = "packet" /\ phase = "mainloop" /\ UiFree
    /\ UNCHANGED <<motVars, rngVars, callback>>
    /\ sel \in 0..Len(packet_tree)
    /\ IF sel = 0
       THEN /\ show_error("Please select a packet to analyze")
            /\ UNCHANGED analysis
       ELSE IF sel > Len(packets)
       THEN UNCHANGED <<analysis_text, analysis>>
       ELSE /\ analysis' = [pc |-> "calling", packet |-> packets[sel],
                            packet_dict |-> packet_to_dict(packets[sel])]
            /\ UNCHANGED analysis_text
    /\ UNCHANGED comVars
    /\ UNCHANGED <<packets, packet_sizes, protocol_counts, capturing,
                   capture_thread, packet_tree, viz_timer, last_cmd>>

\* messages.create returns or raises (lines 306-311)
analyze_response_Uncaught(ok) ==
    /\ app = "packet" /\ phase = "mainloop"
    /\ UNCHANGED <<motVars, rngVars, callback>>
    /\ analysis.pc = "calling"
    /\ IF ok THEN analysis_text' = "Analysis"
       ELSE UNCHANGED analysis_text
    /\ analysis' = AnalysisIdle
    /\ UNCHANGED comVars
    /\ UNCHANGED <<packets, packet_sizes, protocol_counts, capturing,
                   capture_thread, packet_tree, viz_timer, last_cmd>>

analyze_response(ok) ==
    /\ app = "packet" /\ phase = "mainloop"
    /\ UNCHANGED <<motVars, rngVars, callback>>
    /\ analysis.pc = "calling"
    /\ IF ok THEN analysis_text' = "Analysis"
       ELSE show_error("Analysis error")
    /\ analysis' = AnalysisIdle
    /\ UNCHANGED comVars
    /\ UNCHANGED <<packets, packet_sizes, protocol_counts, capturing,
                   capture_thread, packet_tree, viz_timer, last_cmd>>

PacketNext ==
    \/ update_visualization
    \/ start_capture
    \/ stop_capture
    \/ clear_display
    \/ RunAfterPacket
    \/ \E t \in Threads : capture_packets(t)
    \/ \E t \in Threads : capture_error(t)
    \/ \E t \in Threads, pkt \in Packets : packet_callback(t, pkt)
    \/ \E sel \in 0..MaxPackets : analyze_selected(sel)
    \/ \E ok \in BOOLEAN : analyze_response(ok)

(***************************************************************************)
(* Serial wire format, shared by the two telemetry dashboards.             *)
(* A line is what readline().decode().strip() returns.  The model keeps    *)
(* the two parts the code looks at: whether it starts with "DATA:" and,    *)
(* for a data line, the list line[5:].split(',') of its fields; a field is *)
(* the sequence of its characters.                                         *)
(***************************************************************************)
Digits == <<"0", "1", "2", "3", "4", "5", "6", "7", "8", "9">>

DigitSet == { Digits[i] : i \in 1..10 }

DigitVal(c) == (CHOOSE i \in 1..10 : Digits[i] = c) - 1

IsDigits(s) == \A i \in 1..Len(s) : s[i] \in DigitSet

RECURSIVE NatVal(_)
NatVal(s) ==
    IF s = <<>> THEN 0
    ELSE NatVal(SubSeq(s, 1, Len(s) - 1)) * 10 + DigitVal(s[Len(s)])

Unsigned(tok) == IF tok # <<>> /\ tok[1] = "-" THEN Tail(tok) ELSE tok

Signed(tok, n) == IF tok # <<>> /\ tok[1] = "-" THEN 0 - n ELSE n

\* int(x) of a field returns (rather than raising ValueError) when the field
\* is an optional sign and at least one digit
IntConverts(tok) == Unsigned(tok) # <<>> /\ IsDigits(Unsigned(tok))

ParseInt(tok) == Signed(tok, NatVal(Unsigned(tok)))

\* float(x) of a field returns (rather than raising ValueError) when the
\* field is an optional sign, digits, optionally a point and digits, with a
\* digit on at least one side of the point.  The value is kept in tenths;
\* the fields of the model have at most one fractional digit.
DotsOf(body) == { i \in 1..Len(body) : body[i] = "." }

DotAt(body) ==
    IF DotsOf(body) = {} THEN Len(body) + 1 ELSE CHOOSE i \in DotsOf(body) : TRUE

WholePart(body) == SubSeq(body, 1, DotAt(body) - 1)

FracPart(body) == SubSeq(body, DotAt(body) + 1, Len(body))

FloatConverts(tok) ==
    LET body == Unsigned(tok)
    IN /\ Cardinality(DotsOf(body)) <= 1
       /\ IsDigits(WholePart(body)) /\ IsDigits(FracPart(body))
       /\ Len(WholePart(body)) + Len(FracPart(body)) > 0

ParseFloat(tok) ==
    LET body == Unsigned(tok)
    IN Signed(tok, NatVal(WholePart(body)) * 10
                   + (IF FracPart(body) = <<>> THEN 0
                      ELSE DigitVal(FracPart(body)[1])))

DataLine(fs) == [prefix |-> "DATA:", fields |-> fs, text |-> ""]

TextLine(t) == [prefix |-> "", fields |-> <<>>, text |-> t]

\* line.startswith("DATA:")
IsData_Any(line) == TRUE

IsData(line) == line.prefix = "DATA:"

\* "Calibration complete" in response
HasCalibrationAck(line) == line.text = "Calibration complete"

\* fields "1", "2", ... (n of them) and "1.5", "2.5", ..., "-2.0"
PlainFields(n) == [i \in 1..n |-> <<Digits[i + 1]>>]

HalfFields(n) ==
    [i \in 1..n |-> IF i = n THEN <<"-", "2", ".", "0">>
                    ELSE <<Digits[i + 1], ".", "5">>]

WithField(fs, i, tok) == [fs EXCEPT ![i] = tok]

TextLines == { TextLine("Calibration complete"), TextLine("MPU6050 ready") }

(***************************************************************************)
(* Ranging dashboard.                                                      *)
(***************************************************************************)
RangingLines ==
    { TextLine("MPU6050 ready") } \cup
    { DataLine(PlainFields(n)) : n \in {3, 4, 5} } \cup
    { DataLine(WithField(PlainFields(4), 2, <<"4", "0", "0">>)),
      DataLine(WithField(PlainFields(4), 4, <<"1", ".", "5">>)) }

Sensors == 1..4

(***************************************************************************)
(* Motion dashboard.                                                       *)
(***************************************************************************)
MotionLines ==
    TextLines \cup
    { DataLine(PlainFields(n)) : n \in {2, 6, 7, 8, 9} } \cup
    { DataLine(HalfFields(8)),
      DataLine(WithField(PlainFields(8), 3, <<"x">>)),
      DataLine(<<<<>>>>) }

Axes == <<"x", "y", "z">>

EmptyAxes == [a \in {"x", "y", "z"} |-> <<>>]

EmptyOrientation == [a \in {"roll", "pitch"} |-> <<>>]

\* lines 251-260: channel k of the store block is accel x,y,z then gyro x,y,z
StoreChannels == 6

\* the eight channels of the wire format, as the lists that hold them
Channel(k) ==
    IF k <= 3 THEN accel_data[Axes[k]]
    ELSE IF k <= 6 THEN gyro_data[Axes[k - 3]]
    ELSE IF k = 7 THEN orientation_data["roll"]
    ELSE orientation_data["pitch"]

\* values = [float(x) for x in data_str.split(',')], line 241
ParseValues(line) == [i \in 1..Len(line.fields) |-> ParseFloat(line.fields[i])]

\* A line reaches the store block when it is a data line, every field
\* converts, and the debug prints of lines 245-246 find values[0..5].
ReachesStore(line) ==
    /\ IsData(line)
    /\ \A i \in 1..Len(line.fields) : FloatConverts(line.fields[i])
    /\ Len(line.fields) >= 6

\* append, then pop(0) when longer than data_points (lines 252-254)
PushTrim_NoTrim(l, x) == Append(l, x)

PushTrim(l, x) ==
    LET a == Append(l, x)
    IN IF Len(a) > data_points THEN Tail(a) ELSE a

PlotLengths == [k \in 1..8 |-> Len(Channel(k))]

ThreadIdle(pc) == [pc |-> pc, values |-> <<>>, k |-> 0]

\* the device writes one line to the open port
DeviceSend(line) ==
    /\ app \in {"motion", "ranging"}
    /\ phase = "mainloop"
    /\ IF app = "motion" THEN serial_port = "open" /\ line \in MotionLines
       ELSE serial = "open" /\ line \in RangingLines
    /\ n_in < MaxLines
    /\ Len(rx) < MaxRx
    /\ rx' = Append(rx, line)
    /\ n_in' = n_in + 1
    /\ UNCHANGED <<app, phase, after_queue, push_log, rendered>>
    /\ UNCHANGED <<pktVars, motVars, rngVars>>

\* the device is unplugged: from now on every access to the port raises
DeviceLost ==
    /\ app \in {"motion", "ranging"}
    /\ phase = "mainloop"
    /\ IF app = "motion"
       THEN /\ serial_port = "open"
            /\ serial_port' = "lost"
            /\ UNCHANGED serial
       ELSE /\ serial = "open"
            /\ serial' = "lost"
            /\ UNCHANGED serial_port
    /\ rx' = <<>>
    /\ UNCHANGED <<app, phase, after_queue, n_in, push_log, rendered>>
    /\ UNCHANGED <<running, accel_data, gyro_data, orientation_data,
                   data_thread, plot_lines, cal, last_iter>>
    /\ UNCHANGED <<sensor_readings, sensor_histories, last_tick>>
    /\ UNCHANGED <<pktVars, recVars>>

\* while self.running (line 230)
LoopTest_Always == TRUE

LoopTest == running

\* except Exception of lines 268-270: print, sleep, go round the loop again
OnCollectError_Exit == ThreadIdle("done")

OnCollectError == ThreadIdle("loop")

\* how an iteration that read this line ends
Outcome(line) ==
    IF ~IsData(line) THEN "skipped"
    ELSE IF ReachesStore(line) THEN "stored"
    ELSE "parse_error"

\* one iteration of the while loop of collect_data: the port raises, or a
\* line is waiting and is read (an iteration that finds nothing waiting
\* changes nothing)
collect_data ==
    /\ app = "motion"
    /\ data_thread.pc = "loop"
    /\ LoopTest
    /\ IF serial_port # "open"
       THEN /\ last_iter' = "port_error"
            /\ data_thread' = OnCollectError
            /\ UNCHANGED <<rx, accel_data, gyro_data, after_queue, push_log>>
       ELSE /\ rx # <<>>
            /\ rx' = Tail(rx)
            /\ last_iter' = Outcome(Head(rx))
            /\ data_thread' = IF Outcome(Head(rx)) = "parse_error"
                              THEN OnCollectError ELSE data_thread
            /\ LET line == Head(rx)
                   values == ParseValues(line)
               IN IF ReachesStore(line)
                  THEN /\ accel_data' =
                            [a \in DOMAIN accel_data |->
                               PushTrim(accel_data[a],
                                        values[CHOOSE i \in 1..3 : Axes[i] = a])]
                       /\ gyro_data' =
                            [a \in DOMAIN gyro_data |->
                               PushTrim(gyro_data[a],
                                        values[3 + CHOOSE i \in 1..3 :
                                                     Axes[i] = a])]
                       /\ after_queue' = IF phase = "mainloop"
                                         THEN Post("update_display", values)
                                         ELSE after_queue
                       /\ push_log' = Append(push_log, values)
                  ELSE UNCHANGED <<accel_data, gyro_data, after_queue,
                                   push_log>>
    /\ UNCHANGED <<app, phase, n_in, rendered>>
    /\ UNCHANGED <<running, orientation_data, serial_port, plot_lines, cal>>
    /\ UNCHANGED <<pktVars, rngVars, recVars>>

\* the while test of line 230 finds running false: the thread ends
collect_data_exit ==
    /\ app = "motion"
    /\ data_thread.pc = "loop"
    /\ ~LoopTest
    /\ data_thread' = ThreadIdle("done")
    /\ UNCHANGED comVars
    /\ UNCHANGED <<running, accel_data, gyro_data, orientation_data,
                   serial_port, plot_lines, cal>>
    /\ UNCHANGED <<pktVars, rngVars, last_iter, recVars>>

\* update_display(values) run by the Tk main loop; it ends in update_plots
update_display ==
    /\ app = "motion" /\ phase = "mainloop"
    /\ after_queue # <<>>
    /\ after_queue' = Tail(after_queue)
    /\ plot_lines' = PlotLengths
    /\ UNCHANGED <<app, phase, rx, n_in, push_log, rendered>>
    /\ UNCHANGED <<running, accel_data, gyro_data, orientation_data,
                   data_thread, serial_port, cal>>
    /\ UNCHANGED <<pktVars, rngVars, last_iter, recVars>>

\* Tools > Reset Plots
reset_plots ==
    /\ app = "motion" /\ phase = "mainloop" /\ cal = "closed"
    /\ accel_data' = EmptyAxes
    /\ gyro_data' = EmptyAxes
    /\ orientation_data' = EmptyOrientation
    /\ plot_lines' = [k \in 1..8 |-> 0]
    /\ push_log' = <<>>
    /\ UNCHANGED <<app, phase, after_queue, rx, n_in, rendered>>
    /\ UNCHANGED <<running, data_thread, serial_port, cal>>
    /\ UNCHANGED <<pktVars, rngVars, last_iter, recVars>>

\* the body of check_calibration (lines 444-460): the port raises, or a line
\* is waiting and is read and searched for the acknowledgement, or nothing
\* is waiting; unless it succeeded or failed it runs again 100 ms later
PollCalibration ==
    IF serial_port # "open"
    THEN cal' = "failed" /\ UNCHANGED rx
    ELSE IF rx # <<>>
         THEN /\ rx' = Tail(rx)
              /\ cal' = IF HasCalibrationAck(Head(rx)) THEN "success"
                        ELSE "polling"
         ELSE cal' = "polling" /\ UNCHANGED rx

\* Tools > Calibrate Sensor, then Start Calibration: write CALIBRATE and
\* make the first call of check_calibration (lines 432-467)
start_calibration ==
    /\ app = "motion" /\ phase = "mainloop" /\ cal = "closed"
    /\ PollCalibration
    /\ UNCHANGED <<app, phase, after_queue, n_in, push_log, rendered>>
    /\ UNCHANGED <<running, accel_data, gyro_data, orientation_data,
                   data_thread, serial_port, plot_lines>>
    /\ UNCHANGED <<pktVars, rngVars, last_iter, recVars>>

\* one poll of check_calibration (lines 443-460)
check_calibration ==
    /\ app = "motion" /\ phase = "mainloop" /\ cal = "polling"
    /\ PollCalibration
    /\ UNCHANGED <<app, phase, after_queue, n_in, push_log, rendered>>
    /\ UNCHANGED <<running, accel_data, gyro_data, orientation_data,
                   data_thread, serial_port, plot_lines>>
    /\ UNCHANGED <<pktVars, rngVars, last_iter, recVars>>

\* Cancel or Done in the calibration dialog
close_calibration ==
    /\ app = "motion" /\ phase = "mainloop" /\ cal # "closed"
    /\ cal' = "closed"
    /\ UNCHANGED comVars
    /\ UNCHANGED <<running, accel_data, gyro_data, orientation_data,
                   data_thread, serial_port, plot_lines>>
    /\ UNCHANGED <<pktVars, rngVars, last_iter, recVars>>

\* Tools > Connection Settings, then Apply Settings (lines 604-636): close
\* the port, open the selected one (which may fail), flush its input
apply_settings(opened) ==
    /\ app = "motion" /\ phase = "mainloop" /\ cal = "closed"
    /\ serial_port' = IF opened THEN "open"
                      ELSE IF serial_port = "none" THEN "none" ELSE "closed"
    /\ rx' = <<>>
    /\ UNCHANGED <<app, phase, after_queue, n_in, push_log, rendered>>
    /\ UNCHANGED <<running, accel_data, gyro_data, orientation_data,
                   data_thread, plot_lines, cal>>
    /\ UNCHANGED <<pktVars, rngVars, last_iter, recVars>>

\* File > Start Recording (lines 667-684): open a new file and write the
\* header row, unless already recording; open may raise, which is reported in
\* a message box
start_recording(opened) ==
    /\ app = "motion" /\ phase = "mainloop" /\ cal = "closed"
    /\ IF ~recording /\ opened
       THEN /\ recording' = TRUE
            /\ csv_rows' = <<>>
       ELSE UNCHANGED <<recording, csv_rows>>
    /\ UNCHANGED comVars
    /\ UNCHANGED <<running, accel_data, gyro_data, orientation_data,
                   data_thread, serial_port, plot_lines, cal>>
    /\ UNCHANGED <<pktVars, rngVars, last_iter>>

\* File > Stop Recording (lines 686-691): close the file
stop_recording ==
    /\ app = "motion" /\ phase = "mainloop" /\ cal = "closed"
    /\ recording' = IF recording THEN FALSE ELSE recording
    /\ UNCHANGED csv_rows
    /\ UNCHANGED comVars
    /\ UNCHANGED <<running, accel_data, gyro_data, orientation_data,
                   data_thread, serial_port, plot_lines, cal>>
    /\ UNCHANGED <<pktVars, rngVars, last_iter>>

\* save_data_point(values), lines 693-697: a row is written only while
\* recording.  Nothing in the script calls it.
save_data_point(rows, values) ==
    IF recording THEN Append(rows, values) ELSE rows

\* File > Exit or closing the window (lines 699-708)
cleanup_and_exit ==
    /\ app = "motion" /\ phase = "mainloop" /\ cal = "closed"
    /\ running' = FALSE
    /\ serial_port' = IF serial_port = "none" THEN "none" ELSE "closed"
    /\ phase' = "closed"
    /\ after_queue' = <<>>
    /\ recording' = FALSE
    /\ UNCHANGED <<app, rx, n_in, push_log, rendered>>
    /\ UNCHANGED <<accel_data, gyro_data, orientation_data, data_thread,
                   plot_lines, cal, csv_rows>>
    /\ UNCHANGED <<pktVars, rngVars, last_iter>>

MotionNext ==
    \/ collect_data
    \/ collect_data_exit
    \/ update_display
    \/ reset_plots
    \/ start_calibration
    \/ check_calibration
    \/ close_calibration
    \/ \E opened \in BOOLEAN : apply_settings(opened)
    \/ \E opened \in BOOLEAN : start_recording(opened)
    \/ stop_recording
    \/ cleanup_and_exit

\* ---- ranging dashboard: actions
\* the canvas and the graph before any render step has run
NothingDrawn == [readings |-> <<>>, histories |-> <<>>]

\* the three render steps of update_gui draw the readings and the histories
RangingRender(readings, histories) ==
    [readings |-> readings, histories |-> histories]

FirstBad(data_parts) ==
    CHOOSE i \in 1..4 : /\ ~IntConverts(data_parts[i])
                        /\ \A j \in 1..(i - 1) : IntConverts(data_parts[j])

update_gui_Partial ==
    /\ app = "ranging" /\ phase = "mainloop"
    /\ IF serial # "open"
       THEN /\ last_tick' = "failed"
            /\ UNCHANGED <<rx, sensor_readings, sensor_histories, push_log,
                           rendered>>
       ELSE IF rx = <<>>
       THEN /\ rendered' = RangingRender(sensor_readings, sensor_histories)
            /\ last_tick' = "rendered"
            /\ UNCHANGED <<rx, sensor_readings, sensor_histories, push_log>>
       ELSE LET line == Head(rx)
                data_parts == line.fields
                ints == [i \in 1..Len(data_parts) |->
                           IF IntConverts(data_parts[i])
                           THEN ParseInt(data_parts[i]) ELSE 0]
            IN /\ rx' = Tail(rx)
               /\ IF IsData(line) /\ Len(data_parts) = 4
                  THEN IF \A i \in 1..4 : IntConverts(data_parts[i])
                       THEN /\ sensor_readings' = ints
                            /\ sensor_histories' =
                                 [i \in Sensors |->
                                    DequeAppend(sensor_histories[i], ints[i],
                                                history_length)]
                            /\ push_log' = Append(push_log, ints)
                            /\ rendered' =
                                 RangingRender(sensor_readings',
                                               sensor_histories')
                            /\ last_tick' = "rendered"
                       ELSE /\ last_tick' = "failed"
                            /\ sensor_readings' =
                                 [i \in Sensors |->
                                    IF i < FirstBad(data_parts) THEN ints[i]
                                    ELSE sensor_readings[i]]
                            /\ sensor_histories' =
                                 [i \in Sensors |->
                                    IF i < FirstBad(data_parts)
                                    THEN DequeAppend(sensor_histories[i],
                                                     ints[i], history_length)
                                    ELSE sensor_histories[i]]
                            /\ UNCHANGED <<push_log, rendered>>
                  ELSE /\ rendered' =
                            RangingRender(sensor_readings, sensor_histories)
                       /\ last_tick' = "rendered"
                       /\ UNCHANGED <<sensor_readings, sensor_histories,
                                      push_log>>
    /\ UNCHANGED <<app, phase, after_queue, n_in, serial>>
    /\ UNCHANGED <<pktVars, motVars>>

\* one 50 ms tick of update_gui (lines 124-148): when the port is missing or
\* raises, or int() raises, the except branch calls show_error and the render
\* steps of lines 140-142 are not reached
update_gui ==
    /\ app = "ranging" /\ phase = "mainloop"
    /\ IF serial # "open"
       THEN /\ last_tick' = "failed"
            /\ UNCHANGED <<rx, sensor_readings, sensor_histories, push_log,
                           rendered>>
       ELSE IF rx = <<>>
       THEN /\ rendered' = RangingRender(sensor_readings, sensor_histories)
            /\ last_tick' = "rendered"
            /\ UNCHANGED <<rx, sensor_readings, sensor_histories, push_log>>
       ELSE LET line == Head(rx)
                data_parts == line.fields
                ints == [i \in 1..Len(data_parts) |-> ParseInt(data_parts[i])]
            IN /\ rx' = Tail(rx)
               /\ IF IsData(line) /\ Len(data_parts) = 4
                  THEN IF \A i \in 1..4 : IntConverts(data_parts[i])
                       THEN /\ sensor_readings' = ints
                            /\ sensor_histories' =
                                 [i \in Sensors |->
                                    DequeAppend(sensor_histories[i], ints[i],
                                                history_length)]
                            /\ push_log' = Append(push_log, ints)
                            /\ rendered' =
                                 RangingRender(sensor_readings',
                                               sensor_histories')
                            /\ last_tick' = "rendered"
                       ELSE /\ last_tick' = "failed"
                            /\ UNCHANGED <<sensor_readings, sensor_histories,
                                           push_log, rendered>>
                  ELSE /\ rendered' =
                            RangingRender(sensor_readings, sensor_histories)
                       /\ last_tick' = "rendered"
                       /\ UNCHANGED <<sensor_readings, sensor_histories,
                                      push_log>>
    /\ UNCHANGED <<app, phase, after_queue, n_in, serial>>
    /\ UNCHANGED <<pktVars, motVars>>

\* the Reset History button (lines 212-215)
reset_history ==
    /\ app = "ranging" /\ phase = "mainloop"
    /\ sensor_histories' = [i \in Sensors |-> <<>>]
    /\ push_log' = <<>>
    /\ UNCHANGED <<app, phase, after_queue, rx, n_in, rendered>>
    /\ UNCHANGED <<sensor_readings, serial>>
    /\ UNCHANGED <<pktVars, motVars, last_tick>>

RangingNext ==
    \/ update_gui
    \/ reset_history

(***************************************************************************)
(* collect_data statement by statement (RaceSpec): the read and parse of   *)
(* lines 232-246, then for each of the six channels the append, the length *)
(* test and the pop(0) of lines 252-254 and 258-260, then root.after.      *)
(* The UI handlers that run between these statements are the ones that     *)
(* read or replace the channel lists or the port; the calibration dialog   *)
(* and the unplugging of the device are left to Spec.                      *)
(***************************************************************************)
SetChannel(k, v) ==
    /\ accel_data' = IF k <= 3 THEN [accel_data EXCEPT ![Axes[k]] = v]
                     ELSE accel_data
    /\ gyro_data' = IF k > 3 THEN [gyro_data EXCEPT ![Axes[k - 3]] = v]
                    ELSE gyro_data

NextChannel ==
    IF data_thread.k < StoreChannels
    THEN [data_thread EXCEPT !.pc = "append", !.k = @ + 1]
    ELSE [data_thread EXCEPT !.pc = "notify"]

collect_read ==
    /\ app = "motion"
    /\ data_thread.pc = "loop"
    /\ LoopTest
    /\ IF serial_port # "open"
       THEN /\ last_iter' = "port_error"
            /\ data_thread' = OnCollectError
            /\ UNCHANGED rx
       ELSE /\ rx # <<>>
            /\ rx' = Tail(rx)
            /\ last_iter' = IF ReachesStore(Head(rx)) THEN last_iter
                            ELSE Outcome(Head(rx))
            /\ data_thread' =
                 IF ReachesStore(Head(rx))
                 THEN [pc |-> "append", values |-> ParseValues(Head(rx)),
                       k |-> 1]
                 ELSE IF Outcome(Head(rx)) = "parse_error" THEN OnCollectError
                 ELSE data_thread
    /\ UNCHANGED <<app, phase, after_queue, n_in, push_log, rendered>>
    /\ UNCHANGED <<running, accel_data, gyro_data, orientation_data,
                   serial_port, plot_lines, cal>>
    /\ UNCHANGED <<pktVars, rngVars, recVars>>

collect_append ==
    /\ app = "motion"
    /\ data_thread.pc = "append"
    /\ SetChannel(data_thread.k,
                  Append(Channel(data_thread.k),
                         data_thread.values[data_thread.k]))
    /\ data_thread' = [data_thread EXCEPT !.pc = "check"]
    /\ UNCHANGED comVars
    /\ UNCHANGED <<running, orientation_data, serial_port, plot_lines, cal>>
    /\ UNCHANGED <<pktVars, rngVars, last_iter, recVars>>

collect_check ==
    /\ app = "motion"
    /\ data_thread.pc = "check"
    /\ data_thread' =
         IF Len(Channel(data_thread.k)) > data_points
         THEN [data_thread EXCEPT !.pc = "pop"]
         ELSE NextChannel
    /\ UNCHANGED comVars
    /\ UNCHANGED <<running, accel_data, gyro_data, orientation_data,
                   serial_port, plot_lines, cal>>
    /\ UNCHANGED <<pktVars, rngVars, last_iter, recVars>>

\* pop(0); on a list emptied meanwhile it raises IndexError, which the
\* except of line 265 catches, skipping the rest of the store block
collect_pop ==
    /\ app = "motion"
    /\ data_thread.pc = "pop"
    /\ IF Channel(data_thread.k) = <<>>
       THEN /\ data_thread' = ThreadIdle("loop")
            /\ last_iter' = "store_error"
            /\ UNCHANGED <<accel_data, gyro_data>>
       ELSE /\ SetChannel(data_thread.k, Tail(Channel(data_thread.k)))
            /\ data_thread' = NextChannel
            /\ UNCHANGED last_iter
    /\ UNCHANGED comVars
    /\ UNCHANGED <<running, orientation_data, serial_port, plot_lines, cal>>
    /\ UNCHANGED <<pktVars, rngVars, recVars>>

collect_notify ==
    /\ app = "motion"
    /\ data_thread.pc = "notify"
    /\ after_queue' = IF phase = "mainloop"
                      THEN Post("update_display", data_thread.values)
                      ELSE after_queue
    /\ push_log' = Append(push_log, data_thread.values)
    /\ data_thread' = ThreadIdle("loop")
    /\ last_iter' = "stored"
    /\ UNCHANGED <<app, phase, rx, n_in, rendered>>
    /\ UNCHANGED <<running, accel_data, gyro_data, orientation_data,
                   serial_port, plot_lines, cal>>
    /\ UNCHANGED <<pktVars, rngVars, recVars>>

(***************************************************************************)
(* packet_callback statement by statement (PacketRaceSpec): the test and   *)
(* the locals of lines 166-176, the three updates of lines 177, 178 and    *)
(* 179, then root.after of lines 182-183.  It runs on a capture thread, so *)
(* the handlers of the UI thread run between its statements.               *)
(***************************************************************************)
CallbackAt(t, pc) ==
    [callback EXCEPT ![t] = [pc |-> pc, packet |-> callback[t].packet]]

UNCHANGED_ByCallback ==
    /\ UNCHANGED <<app, phase, rx, rendered>>
    /\ UNCHANGED <<capturing, capture_thread, packet_tree, analysis_text,
                   viz_timer, last_cmd, analysis>>
    /\ UNCHANGED <<motVars, rngVars>>

callback_begin(t, pkt) ==
    /\ app = "packet"
    /\ capture_thread[t] = "sniff"
    /\ callback[t].pc = "idle"
    /\ n_in < MaxPackets
    /\ n_in' = n_in + 1
    /\ callback' = IF pkt.ip
                   THEN [callback EXCEPT ![t] = [pc |-> "packets",
                                                 packet |-> pkt]]
                   ELSE callback
    /\ UNCHANGED <<packets, packet_sizes, protocol_counts, after_queue,
                   push_log>>
    /\ UNCHANGED_ByCallback

callback_packets(t) ==
    /\ app = "packet"
    /\ callback[t].pc = "packets"
    /\ packets' = Append(packets, callback[t].packet)
    /\ callback' = CallbackAt(t, "packet_sizes")
    /\ UNCHANGED <<packet_sizes, protocol_counts, after_queue, push_log, n_in>>
    /\ UNCHANGED_ByCallback

callback_packet_sizes(t) ==
    /\ app = "packet"
    /\ callback[t].pc = "packet_sizes"
    /\ packet_sizes' = DequeAppend(packet_sizes, callback[t].packet.len, maxlen)
    /\ push_log' = Append(push_log, <<callback[t].packet.len>>)
    /\ callback' = CallbackAt(t, "protocol_counts")
    /\ UNCHANGED <<packets, protocol_counts, after_queue, n_in>>
    /\ UNCHANGED_ByCallback

callback_protocol_counts(t) ==
    /\ app = "packet"
    /\ callback[t].pc = "protocol_counts"
    /\ protocol_counts' =
         [protocol_counts EXCEPT ![Proto(callback[t].packet)] = @ + 1]
    /\ callback' = CallbackAt(t, "after")
    /\ UNCHANGED <<packets, packet_sizes, after_queue, push_log, n_in>>
    /\ UNCHANGED_ByCallback

callback_after(t) ==
    /\ app = "packet"
    /\ callback[t].pc = "after"
    /\ after_queue' = Post("insert", PacketRow(callback[t].packet))
    /\ callback' = [callback EXCEPT ![t] = CallbackIdle]
    /\ UNCHANGED <<packets, packet_sizes, protocol_counts, push_log, n_in>>
    /\ UNCHANGED_ByCallback

PacketRaceNext ==
    \/ update_visualization
    \/ start_capture
    \/ clear_display
    \/ RunAfterPacket
    \/ \E t \in Threads : capture_packets(t)
    \/ \E t \in Threads, pkt \in Packets : callback_begin(t, pkt)
    \/ \E t \in Threads : callback_packets(t)
    \/ \E t \in Threads : callback_packet_sizes(t)
    \/ \E t \in Threads : callback_protocol_counts(t)
    \/ \E t \in Threads : callback_after(t)

MotionRaceNext ==
    \/ collect_read
    \/ collect_append
    \/ collect_check
    \/ collect_pop
    \/ collect_notify
    \/ collect_data_exit
    \/ update_display
    \/ reset_plots
    \/ \E opened \in BOOLEAN : apply_settings(opened)
    \/ cleanup_and_exit

Init ==
    /\ app \in Apps
    /\ phase = IF app = "packet" THEN "setup" ELSE "mainloop"
    /\ after_queue = <<>>
    /\ rx = <<>>
    /\ n_in = 0
    /\ push_log = <<>>
    \* PacketAnalyzer.__init__, up to the first call of update_visualization
    /\ packets = <<>>
    /\ packet_sizes = <<>>
    /\ protocol_counts = ZeroCounts
    /\ capturing = FALSE
    /\ capture_thread = [t \in Threads |-> "none"]
    /\ packet_tree = <<>>
    /\ analysis_text = ""
    /\ viz_timer = FALSE
    /\ last_cmd = <<"none", FALSE>>
    /\ analysis = AnalysisIdle
    /\ callback = [t \in Threads |-> CallbackIdle]
    \* MPU6050Dashboard.__init__: init_serial succeeds or fails; the data
    \* thread is started only when it succeeds
    /\ serial_port \in IF app = "motion" THEN {"open", "none"} ELSE {"none"}
    /\ running = (serial_port = "open")
    /\ data_thread = ThreadIdle(IF serial_port = "open" THEN "loop" ELSE "none")
    /\ accel_data = EmptyAxes
    /\ gyro_data = EmptyAxes
    /\ orientation_data = EmptyOrientation
    /\ plot_lines = [k \in 1..8 |-> 0]
    /\ cal = "closed"
    /\ last_iter = "none"
    /\ recording = FALSE
    /\ csv_rows = <<>>
    \* EnhancedSensorGUI.__init__: setup_serial succeeds or fails
    /\ serial \in IF app = "ranging" THEN {"open", "none"} ELSE {"none"}
    /\ sensor_readings = <<0, 0, 0, 0>>
    /\ sensor_histories = [i \in Sensors |-> <<>>]
    \* ... and the first update_gui, called by __init__, renders or fails
    /\ last_tick = IF app # "ranging" THEN "none"
                   ELSE IF serial = "open" THEN "rendered" ELSE "failed"
    /\ rendered = IF app # "ranging" THEN [sizes |-> <<>>, counts |-> ZeroCounts]
                  ELSE IF serial = "open"
                  THEN RangingRender(sensor_readings, sensor_histories)
                  ELSE NothingDrawn

Transport ==
    \/ \E line \in MotionLines \cup RangingLines : DeviceSend(line)
    \/ DeviceLost

Next == PacketNext \/ MotionNext \/ RangingNext \/ Transport

Spec == Init /\ [][Next]_vars

\* What runs without the user or the outside world: a started thread reaches
\* sniff, the Tk main loop runs due callbacks and timers, the data thread
\* takes its next iteration.
FairSpec ==
    /\ Spec
    /\ WF_vars(\E t \in Threads : capture_packets(t))
    /\ WF_vars(RunAfterPacket)
    /\ WF_vars(\E ok \in BOOLEAN : analyze_response(ok))
    /\ WF_vars(update_visualization)
    /\ WF_vars(collect_data)
    /\ WF_vars(collect_data_exit)
    /\ WF_vars(update_display)
    /\ WF_vars(check_calibration)
    /\ WF_vars(update_gui)

RaceInit == Init /\ app = "motion"

RaceNext == MotionRaceNext \/ \E line \in MotionLines : DeviceSend(line)

RaceSpec == RaceInit /\ [][RaceNext]_vars

\* The packet dashboard alone, with packet_callback split into its statements.
PacketRaceInit == Init /\ app = "packet"

PacketRaceSpec == PacketRaceInit /\ [][PacketRaceNext]_vars

\* The motion dashboard alone, with the steps its data thread and the Tk main
\* loop take on their own.
MotionFairNext == MotionNext \/ Transport

MotionFairSpec ==
    /\ RaceInit
    /\ [][MotionFairNext]_vars
    /\ WF_vars(collect_data)
    /\ WF_vars(collect_data_exit)
    /\ WF_vars(update_display)
    /\ WF_vars(check_calibration)

(***************************************************************************)
(* Properties.                                                             *)
(***************************************************************************)
Column(log, i) == [j \in 1..Len(log) |-> log[j][i]]

AtIterationBoundary == data_thread.pc \in {"none", "loop", "done"}

\* C1: a rolling history that has taken more pushes than its capacity since
\* the last clear holds exactly capacity values, the last ones pushed, oldest
\* first (packet_sizes, the four sensor_histories, the accel and gyro lists),
\* seen at the end of an acquisition step.
C1_RollingHistory ==
    /\ (app = "packet" /\ Len(push_log) > maxlen) =>
          /\ Len(packet_sizes) = maxlen
          /\ packet_sizes = LastN(Column(push_log, 1), maxlen)
    /\ (app = "ranging" /\ Len(push_log) > history_length) =>
          \A i \in Sensors :
             /\ Len(sensor_histories[i]) = history_length
             /\ sensor_histories[i] = LastN(Column(push_log, i), history_length)
    /\ (app = "motion" /\ AtIterationBoundary /\ Len(push_log) > data_points) =>
          \A k \in 1..StoreChannels :
             /\ Len(Channel(k)) = data_points
             /\ Channel(k) = LastN(Column(push_log, k), data_points)

C1_Witness ==
    /\ app = "motion"
    /\ Len(push_log) > data_points
    /\ push_log[1] # push_log[Len(push_log)]
    /\ Len(accel_data["x"]) = data_points

C1_WitnessPacket ==
    app = "packet" /\ Len(push_log) > maxlen /\ Len(packet_sizes) = maxlen

C1_WitnessRanging ==
    /\ app = "ranging" /\ Len(push_log) > history_length
    /\ Len(sensor_histories[1]) = history_length

\* C2: in the motion dashboard, after k well-formed 8-field DATA: lines (and
\* no reset) each of the eight channels holds the corresponding field of the
\* most recent min(k, data_points) lines, in arrival order.
C2_AllEightChannels ==
    (/\ app = "motion"
     /\ AtIterationBoundary
     /\ \A j \in 1..Len(push_log) : Len(push_log[j]) = 8) =>
        \A k \in 1..8 : Channel(k) = LastN(Column(push_log, k), data_points)

\* C3: in the motion dashboard a DATA: line whose field count is not 8 is a
\* parse failure: the step that consumes it changes no channel list and
\* enqueues no display update.
C3_WrongCountRejected ==
    [][(/\ app = "motion"
        /\ rx # <<>> /\ rx' = Tail(rx)
        /\ IsData(Head(rx))
        /\ Len(Head(rx).fields) # 8) =>
           UNCHANGED <<accel_data, gyro_data, orientation_data, after_queue>>]_vars

ExpectedTag(pkt) ==
    CASE pkt.tcp -> "TCP"
      [] ~pkt.tcp /\ pkt.udp -> "UDP"
      [] OTHER -> "Other"

\* C4: packet_callback on a packet with an IP header tags it TCP, else UDP,
\* else Other by header presence, appends the packet to packets and its
\* length to packet_sizes, adds one to the count of that tag only and posts
\* one row insertion; on a packet without an IP header it changes nothing
\* stored and posts nothing.
C4_PacketCallback ==
    [][\A t \in Threads, pkt \in Packets :
         packet_callback(t, pkt) =>
           IF pkt.ip
           THEN /\ packets' = Append(packets, pkt)
                /\ packet_sizes' = LastN(Append(packet_sizes, pkt.len), maxlen)
                /\ protocol_counts' =
                     [p \in Protos |->
                        IF p = ExpectedTag(pkt) THEN protocol_counts[p] + 1
                        ELSE protocol_counts[p]]
                /\ Len(after_queue') = Len(after_queue) + 1
                /\ after_queue'[Len(after_queue')].f = "insert"
                /\ after_queue'[Len(after_queue')].arg.proto = ExpectedTag(pkt)
                /\ SubSeq(after_queue', 1, Len(after_queue)) = after_queue
           ELSE UNCHANGED <<packets, packet_sizes, protocol_counts,
                            after_queue, packet_tree>>]_vars

C4_Witness ==
    /\ app = "packet"
    /\ n_in = 3 /\ Len(push_log) = 2 /\ Len(packets) = 2
    /\ packets[1].tcp /\ packets[1].udp
    /\ ~packets[2].tcp /\ packets[2].udp
    /\ protocol_counts = [p \in Protos |-> IF p = "Other" THEN 0 ELSE 1]

\* C5: in the motion dashboard the UI thread, reading the channel lists in
\* update_plots while the acquisition thread pushes, never sees a list
\* longer than data_points.
C5_PlotWithinCapacity ==
    \A k \in 1..8 : plot_lines[k] <= data_points

\* C6: in the packet dashboard, once capture has been stopped (and stays
\* stopped) the capture thread eventually ends.
C6_StopEndsCapture ==
    <>[](~capturing) => <>[](AliveThreads = {})

\* C7: in the packet dashboard at most one capture thread is alive at any
\* time, whatever the sequence of Start and Stop clicks.
C7_OneCaptureThread ==
    Cardinality(AliveThreads) <= 1

\* C8: start_capture while capturing spawns no thread and leaves capturing
\* true; stop_capture while not capturing leaves capturing false and spawns
\* or ends no thread.
C8_IdempotentStartStop ==
    [][/\ (start_capture /\ capturing) =>
             (capturing' /\ UNCHANGED capture_thread)
       /\ (stop_capture /\ ~capturing) =>
             (~capturing' /\ UNCHANGED capture_thread)]_vars

C8_Witness ==
    /\ last_cmd = <<"start", TRUE>>
    /\ capturing
    /\ capture_thread[1] = "sniff"
    /\ \A t \in Threads \ {1} : capture_thread[t] = "none"

C8_WitnessStop ==
    /\ last_cmd = <<"stop", FALSE>>
    /\ ~capturing
    /\ capture_thread[1] = "sniff"

\* C9: in the motion dashboard the UI thread never reads a line from, closes
\* or replaces serial_port while collect_data is running.
C9_PortOwnedByAcquisition ==
    [][((check_calibration /\ rx' # rx)
        \/ \E opened \in BOOLEAN : apply_settings(opened)) =>
           data_thread.pc \notin {"loop"}]_vars

\* C10: in the packet dashboard the render timer stays armed while a capture
\* is running, so that update_visualization runs again and again.
C10_RenderTimerArmed ==
    (app = "packet" /\ phase = "mainloop" /\ capturing) => viz_timer

\* C11: in the packet dashboard, while the call to the analysis service made
\* by analyze_selected is in flight the UI thread still processes other
\* events: a posted packet-row insertion that is waiting can be run.
C11_AnalysisOffUiThread ==
    (app = "packet" /\ phase = "mainloop" /\ analysis.pc = "calling"
     /\ after_queue # <<>>) => ENABLED RunAfterPacket

C12_WitnessRestart ==
    capture_thread[1] = "dead" /\ capture_thread[2] = "sniff" /\ capturing

\* C18: the record packet_to_dict builds for a stored packet has protocol
\* Other and neither tcp_flags nor port fields when the packet has no TCP and
\* no UDP header; it holds the flags SYN, ACK, FIN, RST exactly when the
\* packet has a TCP header; its protocol is the tag given at ingestion.
C18_PacketToDict ==
    (app = "packet" /\ analysis.pc = "calling") =>
       LET pkt == analysis.packet
           d == analysis.packet_dict
       IN /\ pkt.ip
          /\ (~pkt.tcp /\ ~pkt.udp) =>
                /\ d.protocol = "Other"
                /\ "tcp_flags" \notin d.keys
                /\ d.keys \cap PortKeys = {}
          /\ ("tcp_flags" \in d.keys) <=> pkt.tcp
          /\ d.tcp_flags = IF pkt.tcp THEN TcpFlagNames ELSE {}
          /\ d.protocol = PacketRow(pkt).proto

C18_Witness ==
    /\ analysis.pc = "calling"
    /\ analysis.packet.ip /\ ~analysis.packet.tcp /\ ~analysis.packet.udp
    /\ analysis.packet_dict.protocol = "Other"

\* C13: in the motion dashboard, at the end of an iteration of collect_data
\* in which the port raised, the acquisition loop is idle: the thread has
\* left the loop and iterates no more.
C13_TransportFailureEndsLoop ==
    (app = "motion" /\ last_iter = "port_error") => data_thread.pc # "loop"

\* C14: in the ranging dashboard every tick of update_gui, also one in which
\* the port is missing or the read or the parse raises, runs the three
\* render steps.
C14_EveryTickRenders ==
    app = "ranging" => last_tick # "failed"

\* C15: in the ranging dashboard a tick that reads a DATA: line with a field
\* count other than 4, or with a field that does not convert to an integer,
\* leaves sensor_readings and the four sensor_histories as they were; and
\* the next tick is always scheduled.
C15_AllOrNothing ==
    /\ [][(/\ update_gui
           /\ serial = "open" /\ rx # <<>>
           /\ Head(rx).prefix = "DATA:"
           /\ \/ Len(Head(rx).fields) # 4
              \/ \E i \in 1..Len(Head(rx).fields) :
                    ~IntConverts(Head(rx).fields[i])) =>
              UNCHANGED <<sensor_readings, sensor_histories>>]_vars
    /\ []((app = "ranging" /\ phase = "mainloop") => ENABLED update_gui)

C15_Witness ==
    /\ app = "ranging" /\ serial = "open"
    /\ last_tick = "failed"
    /\ n_in = 2 /\ rx = <<>>
    /\ Len(push_log) = 1
    /\ sensor_readings = push_log[1]
    /\ \A i \in Sensors : sensor_histories[i] = <<push_log[1][i]>>

\* C16: in the motion dashboard an iteration that reads a DATA: line with a
\* non-numeric field changes no channel list, leaves running true and the
\* thread in its loop; and an iteration after it that reads a well-formed
\* 8-field line stores that line.
C16_ParseFailureContinues ==
    [][/\ (/\ collect_data
           /\ serial_port = "open"
           /\ Head(rx).prefix = "DATA:"
           /\ \E i \in 1..Len(Head(rx).fields) :
                 ~FloatConverts(Head(rx).fields[i])) =>
              /\ UNCHANGED <<accel_data, gyro_data, orientation_data>>
              /\ running'
              /\ data_thread'.pc = "loop"
       /\ (/\ collect_data
           /\ serial_port = "open"
           /\ last_iter = "parse_error"
           /\ Head(rx).prefix = "DATA:"
           /\ Len(Head(rx).fields) = 8
           /\ \A i \in 1..8 : FloatConverts(Head(rx).fields[i])) =>
              /\ \A i \in 1..3 :
                    /\ accel_data'[Axes[i]] =
                         LastN(Append(accel_data[Axes[i]],
                                      ParseFloat(Head(rx).fields[i])),
                               data_points)
                    /\ gyro_data'[Axes[i]] =
                         LastN(Append(gyro_data[Axes[i]],
                                      ParseFloat(Head(rx).fields[i + 3])),
                               data_points)
              /\ last_iter' = "stored"]_vars

C16_Witness ==
    /\ app = "motion"
    /\ last_iter = "parse_error"
    /\ running /\ data_thread.pc = "loop"
    /\ Len(push_log) = 1 /\ Len(accel_data["x"]) = 1

C16_WitnessResumed ==
    /\ app = "motion"
    /\ last_iter = "stored"
    /\ n_in = 2 /\ rx = <<>> /\ Len(push_log) = 1
    /\ serial_port = "open" /\ cal = "closed"

\* C17: in both serial dashboards a line that does not begin with DATA: is
\* skipped: the step that reads it changes no channel history and no current
\* reading, posts no display update and reports no error.
C17_NonDataSkipped ==
    [][/\ (/\ collect_data
           /\ serial_port = "open"
           /\ Head(rx).prefix # "DATA:") =>
              /\ UNCHANGED <<accel_data, gyro_data, orientation_data,
                             after_queue>>
              /\ last_iter' = "skipped"
       /\ (/\ update_gui
           /\ serial = "open" /\ rx # <<>>
           /\ Head(rx).prefix # "DATA:") =>
              /\ UNCHANGED <<sensor_readings, sensor_histories, after_queue>>
              /\ last_tick' = "rendered"]_vars

C17_Witness ==
    /\ app = "motion"
    /\ last_iter = "skipped"
    /\ Len(push_log) = 1 /\ Len(accel_data["x"]) = 1
    /\ rx = <<>> /\ n_in = 2

C17_WitnessRanging ==
    /\ app = "ranging" /\ serial = "open"
    /\ last_tick = "rendered"
    /\ n_in = 1 /\ rx = <<>> /\ push_log = <<>>
    /\ sensor_readings = <<0, 0, 0, 0>>

C20_NotificationsCoalesce ==
    app = "motion" => Len(after_queue) <= 1

\* C21: the analysis service is called only by analyze_selected with a row
\* selected, for a packet held in packets: no packet_callback changes the state
\* of the call, and analyze_selected with nothing selected shows
\* "Error: Please select a packet to analyze" and starts no call.
C21_CallOnlyOnSelection ==
    [][ /\ (analysis.pc = "idle" /\ analysis'.pc = "calling")
            => /\ \E sel \in 1..MaxPackets : analyze_selected(sel)
               /\ \E k \in 1..Len(packets) : analysis'.packet = packets[k]
        /\ \A t \in Threads, pkt \in Packets :
              packet_callback(t, pkt) => analysis' = analysis
        /\ analyze_selected(0)
            => /\ analysis' = analysis
               /\ analysis_text' = "Error: Please select a packet to analyze" ]_vars

\* packets are held, none selected, the error is shown and no call is running
C21_Witness ==
    /\ analysis_text = "Error: Please select a packet to analyze"
    /\ Len(packets) = MaxPackets
    /\ packet_tree # <<>>
    /\ analysis.pc = "idle"

\* a call is running for a selected row
C21_WitnessCall ==
    /\ analysis.pc = "calling"
    /\ \E k \in 1..Len(packets) : analysis.packet = packets[k]

\* C22: when the analysis call raises, analyze_selected shows
\* "Error: Analysis error" in the analysis panel and returns: packets,
\* packet_sizes, protocol_counts and capturing are unchanged, the capture
\* threads keep running and the main loop goes on.
C22_AnalysisErrorInline ==
    [][ analyze_response(FALSE)
        => /\ analysis_text' = "Error: Analysis error"
           /\ analysis'.pc = "idle"
           /\ UNCHANGED <<packets, packet_sizes, protocol_counts, capturing,
                          capture_thread, phase>> ]_vars

\* the error is in the panel while capture goes on with packets held
C22_Witness ==
    /\ analysis_text = "Error: Analysis error"
    /\ capturing
    /\ \E t \in Threads : capture_thread[t] = "sniff"
    /\ packets # <<>>
    /\ phase = "mainloop"

\* C23: while recording, every Record the acquisition loop accepts is appended
\* to the recording, in arrival order, and a Record accepted while not
\* recording is not; start_recording while recording and stop_recording while
\* not recording change nothing.
C23_RecordingFollowsStream ==
    [][ /\ (collect_data /\ serial_port = "open" /\ rx # <<>>
              /\ ReachesStore(Head(rx)))
            => csv_rows' = save_data_point(csv_rows, ParseValues(Head(rx)))
        /\ (recording /\ \E opened \in BOOLEAN : start_recording(opened))
            => UNCHANGED <<recording, csv_rows>>
        /\ (~recording /\ stop_recording)
            => UNCHANGED <<recording, csv_rows>> ]_vars

\* the packet records the dashboard holds: the packets list and the rolling
\* window packet_sizes (packet_times is created and never written)
RecordsHeld == Len(packets) + Len(packet_sizes)

\* C24: with no clear, the number of packet records held stays bounded by a
\* constant set by the capacity however many packets are accepted: each of the
\* two collections holds at most capacity records.
C24_RetainedStateBounded ==
    app = "packet" => RecordsHeld <= 2 * maxlen

\* C25: the k-th row of the packet list describes packets[k], so the row
\* selected for analyze_selected always has its packet and the index it uses
\* is never past the end of packets.
C25_RowsDescribePackets ==
    app = "packet" =>
        /\ Len(packet_tree) <= Len(packets)
        /\ \A k \in 1..Len(packet_tree) : packet_tree[k] = PacketRow(packets[k])

\* C26: whenever no packet_callback is between its statements (and no
\* clear_display, which is one step here), the sum of protocol_counts equals
\* len(packets) and len(packet_sizes) equals min(len(packets), capacity),
\* whatever the interleaving of packet arrivals with clear_display.
C26_AggregatesAgree ==
    (app = "packet" /\ \A t \in Threads : callback[t].pc = "idle") =>
        /\ SeqSum(protocol_counts, Protos) = Len(packets)
        /\ Len(packet_sizes) = IF Len(packets) < maxlen THEN Len(packets)
                               ELSE maxlen

\* C27: at every iteration boundary of collect_data the three accel lists and
\* the three gyro lists have one and the same length, whatever the
\* interleaving with reset_plots on the UI thread.
C27_ChannelsSameLength ==
    (app = "motion" /\ AtIterationBoundary) =>
        \A j, k \in 1..StoreChannels : Len(Channel(j)) = Len(Channel(k))

\* C28: once start_calibration has written CALIBRATE and the line with
\* 'Calibration complete' is waiting at the port, the dialog eventually shows
\* success (or the port fails, or the user closes the dialog), also with the
\* acquisition thread running; and a well-formed DATA: line taken from the
\* port while the dialog is calibrating reaches the store.
C28_CalibrationCompletes ==
    /\ [](( /\ cal = "polling" /\ rx # <<>>
            /\ HasCalibrationAck(Head(rx)) )
            => <>(cal \in {"success", "failed", "closed"}))
    /\ [][ ( /\ cal = "polling" /\ cal' \in {"polling", "success"}
             /\ serial_port = "open" /\ serial_port' = "open"
             /\ rx # <<>> /\ rx' = Tail(rx)
             /\ ReachesStore(Head(rx)) )
           => push_log' = Append(push_log, ParseValues(Head(rx))) ]_vars

====
